---- MODULE Spec2Model ----
(***************************************************************************)
(* rootplotlib: the current-figure registry (rootplotlib/__init__.py), the *)
(* canvas builders and the axis formatter (rootplotlib/canvas.py), the     *)
(* plot orchestration (rootplotlib/plots.py) and the 2D fill               *)
(* (rootplotlib/hist2d.py).                                                *)
(*                                                                         *)
(* Python objects live in three heaps (sequences; the index is the object  *)
(* identity): figs (Figure objects), pads (TCanvas and TPad objects) and   *)
(* objs (drawables: TH1 histograms and TGraph graphs).  A reference is a   *)
(* record [t |-> class, id |-> index].  Every library function is a        *)
(* transformer of a store S = [figs, pads, objs, current, err, ret, log]:  *)
(* err is the exception that left the function ("none" when it returned),  *)
(* ret its return value, log the Figure.add_hist calls it made.            *)
(* Floating point settings are kept in thousandths; a setting divided by a *)
(* region height is kept as the pair <<thousandths, height in percent>>.   *)
(***************************************************************************)
EXTENDS Integers, Sequences, FiniteSets, TLC

VARIABLES figs, pads, objs, current, call, h2, printed, fcall

figvars == <<figs, pads, objs, current, call>>
fillvars == <<h2, printed, fcall>>
vars == <<figs, pads, objs, current, call, h2, printed, fcall>>

(* Bounds of the model. *)
MaxFigs == 3
MaxSeries == 3
MaxDraws == 2
MaxLen == 2
MaxEntries == 2

NoneRef == [t |-> "None", id |-> 0]
Ref(t, i) == [t |-> t, id |-> i]

Store == [figs |-> figs, pads |-> pads, objs |-> objs, current |-> current,
          err |-> "none", ret |-> NoneRef, log |-> <<>>]

Raise(S, e) == [S EXCEPT !.err = e]

(* Sequencing of statements: an exception skips what follows. *)
Then(S, F(_)) == IF S.err # "none" THEN S ELSE F(S)

(***************************************************************************)
(* Figure (rootplotlib/figures.py): one surface and the ordered registry   *)
(* of its named regions.                                                   *)
(***************************************************************************)
Figure_new(S, canvas) ==
    [S EXCEPT !.figs = Append(S.figs, [canvas |-> canvas, regions |-> <<>>]),
              !.ret = Ref("Figure", Len(S.figs) + 1)]

RegionNames(S, f) == {S.pads[S.figs[f.id].regions[k]].name : k \in DOMAIN S.figs[f.id].regions}

RegionOf(S, f, name) ==
    LET rs == S.figs[f.id].regions
    IN  rs[CHOOSE k \in DOMAIN rs : S.pads[rs[k]].name = name]

Figure_append(S, f, pad) ==
    IF S.pads[pad.id].name \in RegionNames(S, f)
    THEN Raise(S, "KeyError")
    ELSE [S EXCEPT !.figs[f.id].regions = Append(@, pad.id), !.ret = NoneRef]

(* name is "" for Python's None *)
Figure_get_pad(S, f, name) ==
    IF f.t # "Figure" THEN Raise(S, "AttributeError")
    ELSE IF name = "" THEN [S EXCEPT !.ret = S.figs[f.id].canvas]
    ELSE IF name \in RegionNames(S, f)
         THEN [S EXCEPT !.ret = Ref("TPad", RegionOf(S, f, name))]
         ELSE Raise(S, "LookupError")

IsObj(e) == e.t \in {"TH1", "TGraph"}

OnlyPads(prims) == SelectSeq(prims, LAMBDA e : ~IsObj(e))

Figure_clear(S, f) ==
    IF f.t # "Figure" THEN Raise(S, "AttributeError")
    ELSE LET owned == {S.figs[f.id].regions[k] : k \in DOMAIN S.figs[f.id].regions}
                      \cup (IF S.figs[f.id].canvas.t = "None" THEN {} ELSE {S.figs[f.id].canvas.id})
         IN  [S EXCEPT !.pads = [p \in DOMAIN S.pads |->
                                   IF p \in owned
                                   THEN [S.pads[p] EXCEPT !.prims = OnlyPads(@)]
                                   ELSE S.pads[p]],
                       !.ret = NoneRef]

(***************************************************************************)
(* The current-figure registry (rootplotlib/__init__.py).                  *)
(***************************************************************************)
(* faulty variant: installs a copy of the Figure it is given *)
set_figure_copy(S, canvas) ==
    IF canvas.t = "Figure"
    THEN [S EXCEPT !.figs = Append(S.figs, S.figs[canvas.id]),
                   !.current = Ref("Figure", Len(S.figs) + 1), !.ret = NoneRef]
    ELSE LET T == Figure_new(S, canvas)
         IN  [T EXCEPT !.current = T.ret, !.ret = NoneRef]

(* faulty variant: installs whatever it is given, unwrapped *)
set_figure_raw(S, canvas) == [S EXCEPT !.current = canvas, !.ret = NoneRef]

set_figure(S, canvas) ==
    IF canvas.t = "Figure"
    THEN [S EXCEPT !.current = canvas, !.ret = NoneRef]
    ELSE LET T == Figure_new(S, canvas)
         IN  [T EXCEPT !.current = T.ret, !.ret = NoneRef]

get_figure(S) == [S EXCEPT !.ret = S.current]

(* faulty variant: clears by installing a fresh empty Figure *)
clear_replace(S) ==
    LET T == Figure_new(S, NoneRef)
    IN  [T EXCEPT !.current = T.ret, !.ret = NoneRef]

clear(S) ==
    LET T == get_figure(S)
    IN  Figure_clear(T, T.ret)

(***************************************************************************)
(* Canvas builders (rootplotlib/canvas.py).                                *)
(***************************************************************************)
NewPad(cls, name, ylow, yup) ==
    [cls |-> cls, name |-> name, ylow |-> ylow, yup |-> yup, prims |-> <<>>,
     margins |-> <<>>, fill |-> <<>>, xlabel |-> "", ylabel |-> "", updated |-> FALSE]

TCanvas_new(S, name) ==
    [S EXCEPT !.pads = Append(S.pads, NewPad("TCanvas", name, 0, 100)),
              !.ret = Ref("TCanvas", Len(S.pads) + 1)]

(* the region's height as a fraction of the surface, in percent *)
GetHNDC(p) == p.yup - p.ylow

create_canvas(S, name) ==
    LET T1 == TCanvas_new(S, name)
        T2 == Figure_new(T1, T1.ret)
        fig == T2.ret
        T3 == set_figure(T2, fig)
    IN  [T3 EXCEPT !.ret = fig]

(* ROOT.TPad(...) with its margins and fill colour set, drawn on the canvas *)
TPad_new(S, canvas, name, ylow, yup, bottom, top) ==
    LET h == yup - ylow
        p == [NewPad("TPad", name, ylow, yup) EXCEPT
                 !.margins = << <<bottom, h>>, <<top, h>>, <<50, 100>>, <<160, 100>> >>,
                 !.fill = <<"color", 0>>]
        id == Len(S.pads) + 1
    IN  [S EXCEPT !.pads = [Append(S.pads, p) EXCEPT ![canvas.id].prims = Append(@, Ref("TPad", id))],
                  !.ret = Ref("TPad", id)]

(* faulty variant: installs the canvas, not the Figure that is returned *)
create_ratio_canvas_sets_canvas(S, name, ratio_size_as_fraction) ==
    LET T1 == TCanvas_new(S, name)
        canvas == T1.ret
        T2 == Figure_new(T1, canvas)
        fig == T2.ret
        T3 == set_figure(T2, canvas)
        T4 == [T3 EXCEPT !.pads[canvas.id].fill = <<"style", 4050>>]
        T5 == TPad_new(T4, canvas, "pad_top", ratio_size_as_fraction, 100, 20, 40)
        T6 == Then(T5, LAMBDA T : Figure_append(T, fig, T5.ret))
        T7 == Then(T6, LAMBDA T : TPad_new(T, canvas, "pad_bot", 0, ratio_size_as_fraction, 120, 20))
        T8 == Then(T7, LAMBDA T : Figure_append(T, fig, T7.ret))
    IN  Then(T8, LAMBDA T : [T EXCEPT !.ret = fig])

(* faulty variant: the two extents are exchanged *)
create_ratio_canvas_swapped(S, name, ratio_size_as_fraction) ==
    LET T1 == TCanvas_new(S, name)
        canvas == T1.ret
        T2 == Figure_new(T1, canvas)
        fig == T2.ret
        T3 == set_figure(T2, fig)
        T4 == [T3 EXCEPT !.pads[canvas.id].fill = <<"style", 4050>>]
        T5 == TPad_new(T4, canvas, "pad_top", 0, ratio_size_as_fraction, 20, 40)
        T6 == Then(T5, LAMBDA T : Figure_append(T, fig, T5.ret))
        T7 == Then(T6, LAMBDA T : TPad_new(T, canvas, "pad_bot", ratio_size_as_fraction, 100, 120, 20))
        T8 == Then(T7, LAMBDA T : Figure_append(T, fig, T7.ret))
    IN  Then(T8, LAMBDA T : [T EXCEPT !.ret = fig])

create_ratio_canvas(S, name, ratio_size_as_fraction) ==
    LET T1 == TCanvas_new(S, name)
        canvas == T1.ret
        T2 == Figure_new(T1, canvas)
        fig == T2.ret
        T3 == set_figure(T2, fig)
        T4 == [T3 EXCEPT !.pads[canvas.id].fill = <<"style", 4050>>]
        T5 == TPad_new(T4, canvas, "pad_top", ratio_size_as_fraction, 100, 20, 40)
        T6 == Then(T5, LAMBDA T : Figure_append(T, fig, T5.ret))
        T7 == Then(T6, LAMBDA T : TPad_new(T, canvas, "pad_bot", 0, ratio_size_as_fraction, 120, 20))
        T8 == Then(T7, LAMBDA T : Figure_append(T, fig, T7.ret))
    IN  Then(T8, LAMBDA T : [T EXCEPT !.ret = fig])

(***************************************************************************)
(* Drawables.  A TH1 exposes GetXaxis, GetYaxis and GetZaxis, a TGraph     *)
(* GetXaxis and GetYaxis only, a TPad none of them.  -1 and <<>> stand for *)
(* a setting nobody has set.  Bin contents are fractions <<n, d>>.         *)
(***************************************************************************)
NewAxis == [TitleSize |-> -1, TitleOffset |-> <<>>, TitleFont |-> -1, LabelSize |-> -1,
            LabelOffset |-> <<>>, LabelFont |-> -1, TickLength |-> <<>>, Ndiv |-> <<>>]

NewObj(cls, name, bins) ==
    [cls |-> cls, name |-> name, bins |-> bins, lcolor |-> -1, mcolor |-> -1,
     mstyle |-> -1, msize |-> -1, X |-> NewAxis, Y |-> NewAxis, Z |-> NewAxis]

HasXaxis(e) == e.t \in {"TH1", "TGraph"}
HasZaxis(e) == e.t = "TH1"

RECURSIVE GCD(_, _)
GCD(a, b) == IF b = 0 THEN a ELSE GCD(b, a % b)

Frac(n, d) == <<n \div GCD(n, d), d \div GCD(n, d)>>

(* TH1::Divide on one bin: the quotient, and 0 where the denominator is 0 *)
DivideBin(c0, c1) == IF c1[1] = 0 THEN <<0, 1>> ELSE Frac(c0[1] * c1[2], c0[2] * c1[1])

hist_divide(S, num, den) ==
    LET n == S.objs[num.id]
        d == S.objs[den.id]
        ratio == [n EXCEPT !.name = n.name \o "_over_" \o d.name,
                           !.bins = [b \in DOMAIN n.bins |-> DivideBin(n.bins[b], d.bins[b])]]
    IN  [S EXCEPT !.objs = Append(S.objs, ratio), !.ret = Ref("TH1", Len(S.objs) + 1)]

(***************************************************************************)
(* Figure.add_hist, Figure.set_xlabel, Figure.set_ylabel                   *)
(***************************************************************************)
Figure_add_hist(S, f, hist, drawopt, pad) ==
    LET T == Figure_get_pad(S, f, pad)
    IN  IF T.err # "none" THEN T
        ELSE IF T.ret.t = "None" THEN Raise(T, "AttributeError")
        ELSE LET o == S.objs[hist.id]
             IN  [T EXCEPT !.pads[T.ret.id].prims = Append(@, hist),
                           !.log = Append(@, [obj |-> hist, region |-> T.ret, drawopt |-> drawopt,
                                              lcolor |-> o.lcolor, mcolor |-> o.mcolor,
                                              mstyle |-> o.mstyle]),
                           !.ret = NoneRef]

Figure_set_xlabel(S, f, text, pad) ==
    LET T == Figure_get_pad(S, f, pad)
    IN  IF T.err # "none" THEN T
        ELSE IF T.ret.t = "None" THEN Raise(T, "AttributeError")
        ELSE [T EXCEPT !.pads[T.ret.id].xlabel = text, !.ret = NoneRef]

Figure_set_ylabel(S, f, text, pad) ==
    LET T == Figure_get_pad(S, f, pad)
    IN  IF T.err # "none" THEN T
        ELSE IF T.ret.t = "None" THEN Raise(T, "AttributeError")
        ELSE [T EXCEPT !.pads[T.ret.id].ylabel = text, !.ret = NoneRef]

add_hist(S, hist, drawopt, pad) ==
    LET T == get_figure(S)
    IN  Figure_add_hist(T, T.ret, hist, drawopt, pad)

(***************************************************************************)
(* Axis formatter (rootplotlib/canvas.py).                                 *)
(***************************************************************************)
DefaultCfg ==
    [XTitleSize |-> 22, XTitleOffset |-> 980, XTitleFont |-> 43,
     XLabelSize |-> 22, XLabelOffset |-> 2, XLabelFont |-> 43, XNDiv |-> <<>>,
     YTitleSize |-> 22, YTitleOffset |-> 1750, YTitleFont |-> 43,
     YLabelSize |-> 22, YLabelOffset |-> 6, YLabelFont |-> 43, YNDiv |-> <<10, 5, 0>>,
     ZTitleSize |-> 22, ZTitleOffset |-> 850, ZTitleFont |-> 43,
     ZLabelSize |-> 22, ZLabelOffset |-> 2, ZLabelFont |-> 43]

SetXaxis(o, cfg, hndc) ==
    [o EXCEPT !.X = [TitleSize |-> cfg.XTitleSize, TitleOffset |-> <<cfg.XTitleOffset, hndc>>,
                     TitleFont |-> cfg.XTitleFont, LabelSize |-> cfg.XLabelSize,
                     LabelOffset |-> <<cfg.XLabelOffset, hndc>>, LabelFont |-> cfg.XLabelFont,
                     TickLength |-> <<20, hndc>>,
                     Ndiv |-> IF cfg.XNDiv # <<>> THEN cfg.XNDiv ELSE o.X.Ndiv]]

SetYaxis(o, cfg) ==
    [o EXCEPT !.Y = [o.Y EXCEPT !.TitleSize = cfg.YTitleSize, !.TitleOffset = <<cfg.YTitleOffset, 100>>,
                                !.TitleFont = cfg.YTitleFont, !.LabelSize = cfg.YLabelSize,
                                !.LabelOffset = <<cfg.YLabelOffset, 100>>, !.LabelFont = cfg.YLabelFont,
                                !.Ndiv = cfg.YNDiv]]

SetZaxis(o, cfg) ==
    [o EXCEPT !.Z = [o.Z EXCEPT !.TitleSize = cfg.ZTitleSize, !.TitleOffset = <<cfg.ZTitleOffset, 100>>,
                                !.TitleFont = cfg.ZTitleFont, !.LabelSize = cfg.ZLabelSize,
                                !.LabelOffset = <<cfg.ZLabelOffset, 100>>, !.LabelFont = cfg.ZLabelFont]]

(* faulty variant: the loop never breaks *)
RECURSIVE FormatLoop_all(_, _, _, _, _)
FormatLoop_all(os, prims, i, cfg, hndc) ==
    IF i > Len(prims) THEN os
    ELSE LET primitive == prims[i]
         IN  IF ~HasXaxis(primitive) THEN FormatLoop_all(os, prims, i + 1, cfg, hndc)
             ELSE LET xy == [os EXCEPT ![primitive.id] = SetYaxis(SetXaxis(@, cfg, hndc), cfg)]
                  IN  IF ~HasZaxis(primitive) THEN FormatLoop_all(xy, prims, i + 1, cfg, hndc)
                      ELSE FormatLoop_all([xy EXCEPT ![primitive.id] = SetZaxis(@, cfg)],
                                          prims, i + 1, cfg, hndc)

(* the loop over canvas.GetListOfPrimitives(), from primitive i on *)
RECURSIVE FormatLoop(_, _, _, _, _)
FormatLoop(os, prims, i, cfg, hndc) ==
    IF i > Len(prims) THEN os
    ELSE LET primitive == prims[i]
         IN  IF ~HasXaxis(primitive) THEN FormatLoop(os, prims, i + 1, cfg, hndc)
             ELSE LET xy == [os EXCEPT ![primitive.id] = SetYaxis(SetXaxis(@, cfg, hndc), cfg)]
                  IN  IF ~HasZaxis(primitive) THEN FormatLoop(xy, prims, i + 1, cfg, hndc)
                      ELSE [xy EXCEPT ![primitive.id] = SetZaxis(@, cfg)]

(* faulty variant: takes the first primitive without looking whether there is one *)
format_canvas_axes_first(S, cfg, pad, fig) ==
    LET T0 == IF fig = NoneRef THEN get_figure(S) ELSE [S EXCEPT !.ret = fig]
        T1 == Figure_get_pad(T0, T0.ret, pad)
        canvas == T1.ret
    IN  IF T1.err # "none" THEN T1
        ELSE IF canvas.t = "None" THEN Raise(T1, "AttributeError")
        ELSE IF Len(T1.pads[canvas.id].prims) = 0 THEN Raise(T1, "IndexError")
        ELSE [T1 EXCEPT !.objs = FormatLoop(T1.objs, T1.pads[canvas.id].prims, 1, cfg,
                                            GetHNDC(T1.pads[canvas.id])),
                        !.pads[canvas.id].updated = TRUE,
                        !.ret = NoneRef]

format_canvas_axes(S, cfg, pad, fig) ==
    LET T0 == IF fig = NoneRef THEN get_figure(S) ELSE [S EXCEPT !.ret = fig]
        T1 == Figure_get_pad(T0, T0.ret, pad)
        canvas == T1.ret
    IN  IF T1.err # "none" THEN T1
        ELSE IF canvas.t = "None" THEN Raise(T1, "AttributeError")
        ELSE [T1 EXCEPT !.objs = FormatLoop(T1.objs, T1.pads[canvas.id].prims, 1, cfg,
                                            GetHNDC(T1.pads[canvas.id])),
                        !.pads[canvas.id].updated = TRUE,
                        !.ret = NoneRef]

format_ratio_canvas_axes(S, cfg, fig) ==
    LET T1 == format_canvas_axes(S, [cfg EXCEPT !.XLabelOffset = 100, !.XNDiv = <<>>], "pad_top", fig)
    IN  Then(T1, LAMBDA T : format_canvas_axes(T, [cfg EXCEPT !.YLabelOffset = 9, !.XNDiv = <<>>,
                                                              !.YNDiv = <<5, 5, 0>>], "pad_bot", fig))

(***************************************************************************)
(* Plot orchestration (rootplotlib/plots.py).                              *)
(***************************************************************************)
Min(a, b) == IF a < b THEN a ELSE b

(* the length of zip(hists, colors, markers) *)
ZipLen(hists, colors, markers) == Min(Len(hists), Min(Len(colors), Len(markers)))

StyleHist(o, color, marker) ==
    [o EXCEPT !.X.LabelSize = 0, !.lcolor = color, !.mcolor = color, !.mstyle = marker, !.msize = 1]

StyleRatio(o, color, marker) ==
    [o EXCEPT !.lcolor = color, !.mcolor = color, !.mstyle = marker, !.msize = 1]

(* faulty variant: the series is added before it is styled *)
RECURSIVE PlotHistLoop_late_style(_, _, _, _, _, _, _)
PlotHistLoop_late_style(S, fig, hists, colors, markers, drawopt, k) ==
    IF S.err # "none" \/ k > ZipLen(hists, colors, markers) THEN S
    ELSE LET T1 == Figure_add_hist(S, fig, hists[k], drawopt, "")
             T2 == [T1 EXCEPT !.objs[hists[k].id] = StyleHist(@, colors[k], markers[k])]
         IN  PlotHistLoop_late_style(T2, fig, hists, colors, markers, drawopt, k + 1)

(* the loop of plot_hist, from the k-th triple on (k = 1 is Python's index 0) *)
RECURSIVE PlotHistLoop(_, _, _, _, _, _, _)
PlotHistLoop(S, fig, hists, colors, markers, drawopt, k) ==
    IF S.err # "none" \/ k > ZipLen(hists, colors, markers) THEN S
    ELSE LET T1 == [S EXCEPT !.objs[hists[k].id] = StyleHist(@, colors[k], markers[k])]
             T2 == Figure_add_hist(T1, fig, hists[k], drawopt, "")
         IN  PlotHistLoop(T2, fig, hists, colors, markers, drawopt, k + 1)

plot_hist(S, hists, xlabel, ylabel, colors, markers, drawopt) ==
    LET T0 == create_canvas(S, "canvas")
        fig == T0.ret
        T1 == set_figure(T0, fig)
        T2 == PlotHistLoop(T1, fig, hists, colors, markers, drawopt, 1)
        T3 == Then(T2, LAMBDA T : Figure_set_xlabel(T, fig, xlabel, ""))
        T4 == Then(T3, LAMBDA T : Figure_set_ylabel(T, fig, ylabel, ""))
        T5 == Then(T4, LAMBDA T : format_canvas_axes(T,
                  [DefaultCfg EXCEPT !.XLabelSize = 18, !.YLabelSize = 18,
                                     !.XTitleOffset = 870, !.YTitleOffset = 1500], "", NoneRef))
    IN  Then(T5, LAMBDA T : [T EXCEPT !.ret = fig])

(* faulty variant: the reference is the series of the preceding iteration *)
RECURSIVE PlotRatioLoop_prev(_, _, _, _, _, _, _, _, _)
PlotRatioLoop_prev(S, fig, hists, colors, markers, ref_place, drawopt, k, hist_ref) ==
    IF S.err # "none" \/ k > ZipLen(hists, colors, markers) THEN S
    ELSE LET hist == hists[k]
             T1 == [S EXCEPT !.objs[hist.id] = StyleHist(@, colors[k], markers[k])]
             T2 == Figure_add_hist(T1, fig, hist, drawopt, "pad_top")
         IN  IF T2.err # "none" THEN T2
             ELSE IF k = 1
             THEN PlotRatioLoop_prev(T2, fig, hists, colors, markers, ref_place, drawopt, k + 1, hist)
             ELSE LET T3 == IF ref_place = "den" THEN hist_divide(T2, hist, hist_ref)
                                                 ELSE hist_divide(T2, hist_ref, hist)
                      hist_ratio == T3.ret
                      T4 == [T3 EXCEPT !.objs[hist_ratio.id] = StyleRatio(@, colors[k], markers[k])]
                      T5 == Figure_add_hist(T4, fig, hist_ratio, "P", "pad_bot")
                  IN  PlotRatioLoop_prev(T5, fig, hists, colors, markers, ref_place, drawopt, k + 1, hist)

(* the loop of plot_hist_ratios, from the k-th triple on; hist_ref is bound *)
(* by the first iteration                                                   *)
RECURSIVE PlotRatioLoop(_, _, _, _, _, _, _, _, _)
PlotRatioLoop(S, fig, hists, colors, markers, ref_place, drawopt, k, hist_ref) ==
    IF S.err # "none" \/ k > ZipLen(hists, colors, markers) THEN S
    ELSE LET hist == hists[k]
             T1 == [S EXCEPT !.objs[hist.id] = StyleHist(@, colors[k], markers[k])]
             T2 == Figure_add_hist(T1, fig, hist, drawopt, "pad_top")
         IN  IF T2.err # "none" THEN T2
             ELSE IF k = 1
             THEN PlotRatioLoop(T2, fig, hists, colors, markers, ref_place, drawopt, k + 1, hist)
             ELSE LET T3 == IF ref_place = "den" THEN hist_divide(T2, hist, hist_ref)
                                                 ELSE hist_divide(T2, hist_ref, hist)
                      hist_ratio == T3.ret
                      T4 == [T3 EXCEPT !.objs[hist_ratio.id] = StyleRatio(@, colors[k], markers[k])]
                      T5 == Figure_add_hist(T4, fig, hist_ratio, "P", "pad_bot")
                  IN  PlotRatioLoop(T5, fig, hists, colors, markers, ref_place, drawopt, k + 1, hist_ref)

(* rootplotlib/axis.py: the labels of the current ratio figure *)
set_axis_labels(S, xlabel, ylabel, ratio_label) ==
    LET f == S.current
        T1 == Figure_set_xlabel(S, f, xlabel, "pad_bot")
        T2 == Then(T1, LAMBDA T : Figure_set_ylabel(T, f, ratio_label, "pad_bot"))
    IN  Then(T2, LAMBDA T : Figure_set_ylabel(T, f, ylabel, "pad_top"))

plot_hist_ratios(S, hists, xlabel, ylabel, ratio_label, colors, markers, ref_place, drawopt, ratio) ==
    LET T0 == create_ratio_canvas(S, "canvas", ratio)
        fig == T0.ret
        T1 == Then(T0, LAMBDA T : set_figure(T, fig))
        T2 == PlotRatioLoop(T1, fig, hists, colors, markers, ref_place, drawopt, 1, NoneRef)
        T3 == Then(T2, LAMBDA T : Figure_set_xlabel(T, fig, xlabel, "pad_bot"))
        T4 == Then(T3, LAMBDA T : Figure_set_ylabel(T, fig, ratio_label, "pad_bot"))
        T5 == Then(T4, LAMBDA T : Figure_set_ylabel(T, fig, ylabel, "pad_top"))
        T6 == Then(T5, LAMBDA T : set_axis_labels(T, xlabel, ylabel, ratio_label))
        T7 == Then(T6, LAMBDA T : format_ratio_canvas_axes(T, [DefaultCfg EXCEPT !.XTitleOffset = 0], fig))
    IN  Then(T7, LAMBDA T : [T EXCEPT !.ret = fig])

(***************************************************************************)
(* 2D histogram fill (rootplotlib/hist2d.py).  The histogram is            *)
(* new("h", 2, 0, 2, 2, 0, 2): two unit bins per axis, bin 0 the underflow *)
(* and bin 3 the overflow.  A container is its element type tag and its    *)
(* values.                                                                 *)
(***************************************************************************)
Axis2 == [nbins |-> 2, lo |-> 0]

FindBin(v) ==
    IF v < Axis2.lo THEN 0
    ELSE IF v >= Axis2.lo + Axis2.nbins THEN Axis2.nbins + 1
    ELSE (v - Axis2.lo) + 1

Cells == (0..(Axis2.nbins + 1)) \X (0..(Axis2.nbins + 1))

new == [c \in Cells |-> 0]

TH2_Fill(hist, x, y, weight) == [hist EXCEPT ![<<FindBin(x), FindBin(y)>>] = @ + weight]

(* TH2::FillN(ntimes, x, y, w): entries k..ntimes *)
RECURSIVE TH2_FillN(_, _, _, _, _, _)
TH2_FillN(hist, ntimes, x, y, w, k) ==
    IF k > ntimes THEN hist
    ELSE TH2_FillN(TH2_Fill(hist, x[k], y[k], w[k]), ntimes, x, y, w, k + 1)

(* for xval, yval in zip(xvalues, yvalues): hist.Fill(xval, yval) *)
RECURSIVE FillEach(_, _, _, _)
FillEach(hist, x, y, k) ==
    IF k > Min(Len(x), Len(y)) THEN hist
    ELSE FillEach(TH2_Fill(hist, x[k], y[k], 1), x, y, k + 1)

ConvertX(tx) == IF tx = "list" THEN "array" ELSE IF tx = "ndarray" THEN "array" ELSE tx

(* the second test looks at xvalues, which has been converted already *)
ConvertY(ty, tx) == IF ty = "list" THEN "array" ELSE IF tx = "ndarray" THEN "array" ELSE ty

LengthMessage == "It is not possible to fill the histogram. x/y values must be the same size"

(* faulty variant: a length mismatch is printed and the common prefix filled *)
fill_zip(hist, xvalues, yvalues, tx, ty, typeError) ==
    LET tx1 == ConvertX(tx)
        ty1 == ConvertY(ty, tx1)
        n == Min(Len(xvalues), Len(yvalues))
    IN  [hist |-> FillEach(hist, xvalues, yvalues, 1),
         printed |-> IF Len(xvalues) # Len(yvalues) THEN <<LengthMessage>> ELSE <<>>,
         calls |-> IF Len(xvalues) # Len(yvalues) THEN [k \in 1..n |-> "Fill"]
                   ELSE IF typeError THEN <<"FillN">> \o [k \in 1..n |-> "Fill"] ELSE <<"FillN">>,
         raised |-> "none", tx |-> tx1, ty |-> ty1]

(* typeError: whether the library's FillN rejects the arguments with a TypeError *)
fill(hist, xvalues, yvalues, tx, ty, typeError) ==
    LET w == [k \in 1..Len(xvalues) |-> 1]
        tx1 == ConvertX(tx)
        ty1 == ConvertY(ty, tx1)
        base == [hist |-> hist, printed |-> <<>>, calls |-> <<>>, raised |-> "none",
                 tx |-> tx1, ty |-> ty1]
    IN  IF Len(xvalues) # Len(yvalues)
        THEN [base EXCEPT !.printed = <<LengthMessage>>]
        ELSE IF ~typeError
        THEN [base EXCEPT !.hist = TH2_FillN(hist, Len(xvalues), xvalues, yvalues, w, 1),
                          !.calls = <<"FillN">>]
        ELSE [base EXCEPT !.hist = FillEach(hist, xvalues, yvalues, 1),
                          !.calls = <<"FillN">> \o [k \in 1..Min(Len(xvalues), Len(yvalues)) |-> "Fill"]]

(***************************************************************************)
(* The inputs of the calls.                                                *)
(***************************************************************************)
(* the caller's drawables: three histograms of three bins and one graph *)
Pool == << NewObj("TH1", "h1", << <<2, 1>>, <<4, 1>>, <<0, 1>> >>),
           NewObj("TH1", "h2", << <<6, 1>>, <<8, 1>>, <<5, 1>> >>),
           NewObj("TH1", "h3", << <<3, 1>>, <<0, 1>>, <<7, 1>> >>),
           NewObj("TGraph", "g1", <<>>) >>

PoolRefs == {Ref(Pool[i].cls, i) : i \in DOMAIN Pool}
DrawRefs == {Ref(Pool[i].cls, i) : i \in {1, 2, 4}}
HistIds == {i \in DOMAIN Pool : Pool[i].cls = "TH1"}

(* n histograms of the pool, starting at histogram s and wrapping around *)
Rot(s, n) == [k \in 1..n |-> Ref("TH1", ((s + k - 2) % Cardinality(HistIds)) + 1)]
HistSeqs == {Rot(3, n) : n \in 0..MaxSeries}

LongColors == [k \in 1..(MaxSeries + 1) |-> k + 1]
LongMarkers == [k \in 1..(MaxSeries + 1) |-> k + 19]
StyleArgs == { <<LongColors, LongMarkers>> }

(* ratio_size_as_fraction, in percent: the default 0.35 and one more *)
Ratios == {35, 60}
PadNames == {"", "pad_top", "pad_bot"}

FigRefs == {Ref("Figure", i) : i \in DOMAIN figs}
CanvasRefs == {Ref("TCanvas", i) : i \in {j \in DOMAIN pads : pads[j].cls = "TCanvas"}}

(***************************************************************************)
(* The state machine: one action per call of the public interface.         *)
(***************************************************************************)
RECURSIVE SumLen(_, _)
SumLen(ps, i) == IF i > Len(ps) THEN 0 ELSE Len(SelectSeq(ps[i].prims, IsObj)) + SumLen(ps, i + 1)

(* the number of drawables drawn on all regions *)
DrawCount(ps) == SumLen(ps, 1)

LoadState ==
    [figs |-> << [canvas |-> NoneRef, regions |-> <<>>] >>,
     current |-> Ref("Figure", 1),
     pads |-> << NewPad("TCanvas", "user", 0, 100) >>,
     objs |-> Pool,
     err |-> "none", ret |-> NoneRef, log |-> <<>>]

CallRecord(op, arg, T) ==
    [op |-> op, arg |-> arg, ret |-> T.ret, err |-> T.err, log |-> T.log]

Init ==
    /\ figs = LoadState.figs
    /\ current = LoadState.current
    /\ pads = LoadState.pads
    /\ objs = LoadState.objs
    /\ call = CallRecord("load", <<>>, LoadState)
    /\ h2 = new
    /\ printed = <<>>
    /\ fcall = [op |-> "load"]

Do(op, arg, T) ==
    /\ figs' = T.figs
    /\ pads' = T.pads
    /\ objs' = T.objs
    /\ current' = T.current
    /\ call' = CallRecord(op, arg, T)
    /\ UNCHANGED fillvars

Call_set_figure ==
    \E X \in FigRefs \cup CanvasRefs :
        /\ X.t = "Figure" \/ Len(figs) < MaxFigs
        /\ Do("set_figure", X, set_figure(Store, X))

Call_get_figure == Do("get_figure", <<>>, get_figure(Store))

Call_clear == Do("clear", <<>>, clear(Store))

Call_create_canvas ==
    /\ Len(figs) < MaxFigs
    /\ Do("create_canvas", <<>>, create_canvas(Store, "c1"))

Call_create_ratio_canvas ==
    \E r \in Ratios :
        /\ Len(figs) < MaxFigs
        /\ Do("create_ratio_canvas", r, create_ratio_canvas(Store, "c2", r))

Call_plot_hist ==
    \E hs \in HistSeqs, st \in StyleArgs :
        /\ Len(figs) < MaxFigs
        /\ Do("plot_hist", [hists |-> hs, colors |-> st[1], markers |-> st[2]],
              plot_hist(Store, hs, "x", "y", st[1], st[2], "pE1"))

Call_plot_hist_ratios ==
    \E hs \in HistSeqs, st \in StyleArgs, ref_place \in {"den", "num"} :
        /\ Len(figs) < MaxFigs
        /\ Do("plot_hist_ratios",
              [hists |-> hs, colors |-> st[1], markers |-> st[2], ref_place |-> ref_place],
              plot_hist_ratios(Store, hs, "x", "y", "Ratio", st[1], st[2], ref_place, "pE1", 35))

Call_add_hist ==
    \E h \in DrawRefs, pad \in PadNames :
        /\ DrawCount(pads) < MaxDraws
        /\ Do("add_hist", <<>>, add_hist(Store, h, "pE1", pad))

Call_format_canvas_axes ==
    \E pad \in PadNames, fig \in FigRefs \cup {NoneRef} :
        Do("format_canvas_axes", [pad |-> pad, fig |-> fig],
           format_canvas_axes(Store, DefaultCfg, pad, fig))

Call_format_ratio_canvas_axes ==
    \E fig \in FigRefs \cup {NoneRef} :
        Do("format_ratio_canvas_axes", [fig |-> fig],
           format_ratio_canvas_axes(Store, DefaultCfg, fig))

(* The registry, the builders and the plot functions, from module load. *)
Next ==
    \/ Call_set_figure
    \/ Call_get_figure
    \/ Call_clear
    \/ Call_create_canvas
    \/ Call_create_ratio_canvas
    \/ Call_plot_hist
    \/ Call_plot_hist_ratios

Spec == Init /\ [][Next]_vars

(* The axis formatter, on a figure that a builder has just made current. *)
Built == {create_canvas(LoadState, "c1")} \cup {create_ratio_canvas(LoadState, "c2", r) : r \in Ratios}

InitAxes ==
    /\ \E T \in Built :
          /\ figs = T.figs
          /\ current = T.current
          /\ pads = T.pads
          /\ objs = T.objs
          /\ call = CallRecord("build", <<>>, T)
    /\ h2 = new
    /\ printed = <<>>
    /\ fcall = [op |-> "load"]

NextAxes ==
    \/ Call_add_hist
    \/ Call_format_canvas_axes
    \/ Call_format_ratio_canvas_axes

SpecAxes == InitAxes /\ [][NextAxes]_vars

(* The 2D fill, on one histogram that the caller keeps filling or replaces. *)
Values == {0, 2}
ValueSeqs == UNION {[1..n -> Values] : n \in 0..MaxLen}
Containers == { <<"list", "list">>, <<"ndarray", "ndarray">> }

RECURSIVE SumCells(_, _)
SumCells(hist, cs) ==
    IF cs = {} THEN 0
    ELSE LET c == CHOOSE c \in cs : TRUE IN hist[c] + SumCells(hist, cs \ {c})

GetEntries(hist) == SumCells(hist, Cells)

Call_new ==
    /\ h2' = new
    /\ printed' = <<>>
    /\ fcall' = [op |-> "new"]
    /\ UNCHANGED figvars

Call_fill ==
    \E xs \in {s \in ValueSeqs : GetEntries(h2) + Len(s) <= MaxEntries} :
        \E ys \in ValueSeqs, t \in Containers, typeError \in BOOLEAN :
            LET R == fill(h2, xs, ys, t[1], t[2], typeError)
            IN  /\ h2' = R.hist
                /\ printed' = R.printed
                /\ fcall' = [op |-> "fill", xvalues |-> xs, yvalues |-> ys, tx |-> R.tx, ty |-> R.ty,
                             typeError |-> typeError, calls |-> R.calls, raised |-> R.raised]
                /\ UNCHANGED figvars

NextFill ==
    \/ Call_new
    \/ Call_fill

SpecFill == Init /\ [][NextFill]_vars

(***************************************************************************)
(* hist2d.shift.  The histogram is addressed by one bin number, the global *)
(* bin of a TH2: binx + (nbinsx + 2) * biny, so that bins 1..nbinsx are    *)
(* the x bins of the row biny = 0.                                         *)
(***************************************************************************)
MaxShift == 2

GetNbinsX == Axis2.nbins

NCells == (Axis2.nbins + 2) * (Axis2.nbins + 2)

CellOf(bin) == <<bin % (Axis2.nbins + 2), bin \div (Axis2.nbins + 2)>>

GetBinContent(hist, bin) == hist.cells[CellOf(bin)]

(* TH2::SetBinContent(bin, content): a bin outside the histogram is ignored *)
SetBinContent(hist, bin, content) ==
    IF bin < 0 \/ bin >= NCells THEN hist
    ELSE [hist EXCEPT !.cells[CellOf(bin)] = content]

Clone(hist) == hist

SetName(hist, name) == [hist EXCEPT !.name = name]

Reset(hist) == [hist EXCEPT !.cells = [c \in Cells |-> 0]]

(* faulty variant: the loop runs over every x bin, 1..GetNbinsX *)
RECURSIVE ShiftLoop_inclusive(_, _, _, _)
ShiftLoop_inclusive(hist, h, shift_units, b) ==
    IF b > GetNbinsX THEN h
    ELSE ShiftLoop_inclusive(hist, SetBinContent(h, b + shift_units, GetBinContent(hist, b)),
                             shift_units, b + 1)

(* for b in range(1, hist.GetNbinsX()): b = 1 .. GetNbinsX - 1 *)
RECURSIVE ShiftLoop(_, _, _, _)
ShiftLoop(hist, h, shift_units, b) ==
    IF b >= GetNbinsX THEN h
    ELSE ShiftLoop(hist, SetBinContent(h, b + shift_units, GetBinContent(hist, b)),
                   shift_units, b + 1)

(* the input as the call leaves it, and the histogram returned *)
shift(hist, shift_units) ==
    LET h == Reset(SetName(Clone(hist), hist.name \o "_shift"))
    IN  [hist |-> hist, h |-> ShiftLoop(hist, h, shift_units, 1)]

(* The caller fills a histogram named "h2d" pair by pair, values on both   *)
(* sides of the axis range, and shifts it.                                 *)
ShiftValues == {-1, 0, 1, 2}
Shifts == (0 - MaxShift)..MaxShift

Call_fill_pair ==
    \E x \in ShiftValues, y \in ShiftValues :
        LET R == fill(h2, <<x>>, <<y>>, "list", "list", FALSE)
        IN  /\ GetEntries(h2) < MaxEntries
            /\ h2' = R.hist
            /\ printed' = R.printed
            /\ fcall' = [op |-> "fill", xvalues |-> <<x>>, yvalues |-> <<y>>, tx |-> R.tx,
                         ty |-> R.ty, typeError |-> FALSE, calls |-> R.calls,
                         raised |-> R.raised]
            /\ UNCHANGED figvars

Call_shift ==
    \E shift_units \in Shifts :
        LET R == shift([name |-> "h2d", cells |-> h2], shift_units)
        IN  /\ h2' = R.hist.cells
            /\ fcall' = [op |-> "shift", shift_units |-> shift_units, hist |-> R.hist, h |-> R.h]
            /\ UNCHANGED <<printed, figvars>>

NextShift ==
    \/ Call_fill_pair
    \/ Call_shift

SpecShift == Init /\ [][NextShift]_vars

(***************************************************************************)
(* Properties.                                                             *)
(***************************************************************************)
RegionNameSeq(f) == [k \in DOMAIN figs[f.id].regions |-> pads[figs[f.id].regions[k]].name]

(* C1: get_figure() right after set_figure(X) returns X itself when X is a *)
(* Figure (no Figure is created, none is changed), and a Figure created by *)
(* this call that wraps X and has no region when X is a surface handle;    *)
(* nothing of the slot's previous content is kept.                         *)
C1_SetThenGet ==
    [][call'.op = "set_figure" =>
          LET X == call'.arg
              got == get_figure(Store)'
          IN  /\ got.err = "none"
              /\ IF X.t = "Figure"
                 THEN got.ret = X /\ figs' = figs
                 ELSE /\ got.ret.t = "Figure"
                      /\ got.ret.id \notin DOMAIN figs
                      /\ figs' = Append(figs, [canvas |-> X, regions |-> <<>>])
                      /\ got.ret.id = Len(figs')]_vars

(* an older Figure with two regions has been installed again *)
C1_Witness ==
    /\ call.op = "set_figure"
    /\ call.arg.t = "Figure"
    /\ call.arg.id < Len(figs)
    /\ Len(figs[call.arg.id].regions) = 2
    /\ current = call.arg

(* C2: in every state reached from module load the slot holds one Figure   *)
(* object, never nothing and never a surface handle, and get_figure()      *)
(* returns it without failing.                                             *)
C2_SlotHoldsFigure ==
    /\ current.t = "Figure"
    /\ current.id \in DOMAIN figs
    /\ get_figure(Store).err = "none"
    /\ get_figure(Store).ret = current

C2_Witness ==
    /\ call.op = "clear"
    /\ Len(figs) = MaxFigs
    /\ \E p \in DOMAIN pads : pads[p].cls = "TCanvas" /\ figs[current.id].canvas = Ref("TCanvas", p)

(* C3: clear() leaves the slot alone: the same Figure object is current    *)
(* after it as before it, no Figure is created or changed, and only the    *)
(* drawables of that Figure's regions are dropped.                         *)
C3_ClearKeepsCurrent ==
    [][call'.op = "clear" =>
          /\ current' = current
          /\ get_figure(Store)'.ret = get_figure(Store).ret
          /\ figs' = figs
          /\ objs' = objs
          /\ call'.err = "none"]_vars

(* a plotted ratio figure has been cleared *)
C3_Witness ==
    /\ call.op = "clear"
    /\ Len(figs[current.id].regions) = 2
    /\ \E o \in DOMAIN objs : objs[o].lcolor # -1
    /\ \A k \in DOMAIN figs[current.id].regions :
          SelectSeq(pads[figs[current.id].regions[k]].prims, IsObj) = <<>>

(* C4: when create_canvas or create_ratio_canvas returns a Figure F, F is  *)
(* the current figure (the same object), and for create_ratio_canvas the   *)
(* current figure holds both regions.                                      *)
C4_BuiltIsCurrent ==
    (call.op \in {"create_canvas", "create_ratio_canvas"} /\ call.err = "none") =>
        /\ call.ret.t = "Figure"
        /\ get_figure(Store).ret = call.ret
        /\ call.op = "create_ratio_canvas" =>
              RegionNameSeq(get_figure(Store).ret) = <<"pad_top", "pad_bot">>

(* a ratio canvas built while another built figure was current *)
C4_Witness ==
    /\ call.op = "create_ratio_canvas"
    /\ call.err = "none"
    /\ Len(figs) = MaxFigs
    /\ call.ret.id = MaxFigs

(* C5: create_ratio_canvas(r) registers exactly two regions on the Figure  *)
(* it returns, "pad_top" then "pad_bot"; pad_bot spans [0, r] and pad_top  *)
(* spans [r, 1] of the surface's height.                                   *)
C5_RatioRegions ==
    (call.op = "create_ratio_canvas" /\ call.err = "none") =>
        LET rs == figs[call.ret.id].regions
            r == call.arg
        IN  /\ Len(rs) = 2
            /\ pads[rs[1]].name = "pad_top"
            /\ pads[rs[2]].name = "pad_bot"
            /\ pads[rs[1]].ylow = r /\ pads[rs[1]].yup = 100
            /\ pads[rs[2]].ylow = 0 /\ pads[rs[2]].yup = r
            /\ GetHNDC(pads[rs[1]]) + GetHNDC(pads[rs[2]]) = 100

C5_Witness ==
    /\ call.op = "create_ratio_canvas"
    /\ call.err = "none"
    /\ call.arg = 60
    /\ Len(figs[call.ret.id].regions) = 2

(* q is the quotient c0 / c1 of two bin contents, and 0 where c1 is 0 *)
IsQuotient(q, c0, c1) ==
    IF c1[1] = 0 THEN q = <<0, 1>>
    ELSE q[2] > 0 /\ q[1] * c1[1] * c0[2] = c0[1] * c1[2] * q[2]

(* C6: plot_hist_ratios takes series[0] as the reference: every processed  *)
(* series i >= 1 adds exactly one new ratio series to the bottom region,   *)
(* equal bin by bin to series[i] / series[0] when ref_place = "den" and to *)
(* series[0] / series[i] otherwise; the reference itself adds none.        *)
C6_RatioAgainstFirst ==
    (call.op = "plot_hist_ratios" /\ call.err = "none") =>
        LET hs == call.arg.hists
            n == ZipLen(hs, call.arg.colors, call.arg.markers)
            bot == Ref("TPad", RegionOf(Store, call.ret, "pad_bot"))
            bottom == SelectSeq(call.log, LAMBDA e : e.region = bot)
        IN  /\ Len(bottom) = (IF n = 0 THEN 0 ELSE n - 1)
            /\ pads[bot.id].prims = [k \in DOMAIN bottom |-> bottom[k].obj]
            /\ \A i \in 2..n :
                  LET ratio == objs[bottom[i - 1].obj.id]
                      si == objs[hs[i].id]
                      s0 == objs[hs[1].id]
                  IN  /\ bottom[i - 1].obj.id \notin DOMAIN Pool
                      /\ bottom[i - 1].drawopt = "P"
                      /\ DOMAIN ratio.bins = DOMAIN s0.bins
                      /\ \A b \in DOMAIN s0.bins :
                            IF call.arg.ref_place = "den"
                            THEN IsQuotient(ratio.bins[b], si.bins[b], s0.bins[b])
                            ELSE IsQuotient(ratio.bins[b], s0.bins[b], si.bins[b])
                      /\ ratio.name = (IF call.arg.ref_place = "den"
                                       THEN si.name \o "_over_" \o s0.name
                                       ELSE s0.name \o "_over_" \o si.name)

(* three series, the reference as the numerator *)
C6_Witness ==
    /\ call.op = "plot_hist_ratios"
    /\ call.err = "none"
    /\ Len(call.arg.hists) = 3
    /\ call.arg.ref_place = "num"
    /\ Len(pads[RegionOf(Store, call.ret, "pad_bot")].prims) = 2

(* C7: with N series and at least N colors and N markers, plot_hist adds   *)
(* exactly the N series, in input order, to the default region of the      *)
(* canvas it has just created; series k has line and marker color          *)
(* colors[k] and marker style markers[k] at the moment it is added.        *)
C7_PlotHistPairwise ==
    (/\ call.op = "plot_hist"
     /\ call.err = "none"
     /\ Len(call.arg.colors) >= Len(call.arg.hists)
     /\ Len(call.arg.markers) >= Len(call.arg.hists)) =>
        LET hs == call.arg.hists
            fig == call.ret
            canvas == figs[fig.id].canvas
        IN  /\ fig.id = Len(figs) /\ canvas = Ref("TCanvas", Len(pads))
            /\ figs[fig.id].regions = <<>>
            /\ Figure_get_pad(Store, fig, "").ret = canvas
            /\ pads[canvas.id].prims = hs
            /\ Len(call.log) = Len(hs)
            /\ \A k \in DOMAIN hs :
                  /\ call.log[k].obj = hs[k]
                  /\ call.log[k].region = canvas
                  /\ call.log[k].lcolor = call.arg.colors[k]
                  /\ call.log[k].mcolor = call.arg.colors[k]
                  /\ call.log[k].mstyle = call.arg.markers[k]

(* three series and one color and marker more than series *)
C7_Witness ==
    /\ call.op = "plot_hist"
    /\ call.err = "none"
    /\ Len(call.arg.hists) = 3
    /\ Len(call.arg.colors) > 3
    /\ Len(pads[figs[call.ret.id].canvas.id].prims) = 3

(* the region a format_canvas_axes call with arguments arg works on *)
Target(arg) ==
    Figure_get_pad(Store, IF arg.fig = NoneRef THEN current ELSE arg.fig, arg.pad)

Resolves(arg) == Target(arg).err = "none" /\ Target(arg).ret.t # "None"

(* the position of the first primitive for which Is holds, 0 if there is none *)
First(prims, Is(_)) ==
    IF \E i \in DOMAIN prims : Is(prims[i])
    THEN CHOOSE i \in DOMAIN prims : Is(prims[i]) /\ \A j \in 1..(i - 1) : ~Is(prims[j])
    ELSE 0

HasXZaxis(e) == HasXaxis(e) /\ HasZaxis(e)

AxesOf(o) == <<o.X, o.Y, o.Z>>

(* C8 as stated: format_canvas_axes changes the axes of the first drawable *)
(* of the region that exposes a horizontal axis and of no other drawable   *)
(* of the region.                                                          *)
C8_OnlyFirstTouched ==
    [][(call'.op = "format_canvas_axes" /\ call'.err = "none") =>
          LET prims == pads[Target(call'.arg).ret.id].prims
              first == First(prims, HasXaxis)
          IN  \A i \in DOMAIN prims :
                  (IsObj(prims[i]) /\ (first = 0 \/ prims[i] # prims[first]))
                      => AxesOf(objs'[prims[i].id]) = AxesOf(objs[prims[i].id])]_vars

(* the drawables format_canvas_axes reaches: those with a horizontal axis, *)
(* up to and including the first that has a depth axis as well             *)
Touched(prims) ==
    LET stop == First(prims, HasXZaxis)
        last == IF stop = 0 THEN Len(prims) ELSE stop
    IN  {prims[i].id : i \in {j \in 1..last : HasXaxis(prims[j])}}

(* C8 amended: format_canvas_axes changes the axes of those drawables of   *)
(* the region that expose a horizontal axis and come no later than the     *)
(* first drawable that exposes both a horizontal and a depth axis; every   *)
(* other drawable keeps all its settings.                                  *)
C8_TouchedUpToFirstXZ ==
    [][(call'.op = "format_canvas_axes" /\ call'.err = "none") =>
          LET prims == pads[Target(call'.arg).ret.id].prims
          IN  /\ \A o \in DOMAIN objs : o \notin Touched(prims) => objs'[o] = objs[o]
              /\ \A o \in Touched(prims) :
                    /\ objs'[o].X.TitleSize = DefaultCfg.XTitleSize
                    /\ objs'[o].Y.TitleSize = DefaultCfg.YTitleSize
              /\ DOMAIN objs' = DOMAIN objs]_vars

(* a region whose first drawable is a histogram and whose second, another  *)
(* drawable with a horizontal axis, has been left as it was                *)
C8_Witness ==
    /\ call.op = "format_canvas_axes"
    /\ call.err = "none"
    /\ Resolves(call.arg)
    /\ LET prims == pads[Target(call.arg).ret.id].prims
       IN  /\ Len(prims) = 2
           /\ prims[1].t = "TH1" /\ HasXaxis(prims[2]) /\ prims[2] # prims[1]
           /\ objs[prims[1].id].Z.TitleSize = DefaultCfg.ZTitleSize
           /\ AxesOf(objs[prims[2].id]) = <<NewAxis, NewAxis, NewAxis>>

(* C9: format_canvas_axes on a region that holds no drawable raises        *)
(* nothing, changes no setting of any drawable and leaves the current      *)
(* figure the current figure.                                              *)
C9_EmptyRegionNoop ==
    [][(/\ call'.op = "format_canvas_axes"
        /\ Resolves(call'.arg)
        /\ SelectSeq(pads[Target(call'.arg).ret.id].prims, IsObj) = <<>>) =>
          /\ call'.err = "none"
          /\ objs' = objs
          /\ current' = current
          /\ figs' = figs]_vars

(* an empty region of a figure formatted while another region of the same  *)
(* figure holds a drawable                                                 *)
C9_Witness ==
    /\ call.op = "format_canvas_axes"
    /\ call.err = "none"
    /\ Resolves(call.arg)
    /\ SelectSeq(pads[Target(call.arg).ret.id].prims, IsObj) = <<>>
    /\ pads[Target(call.arg).ret.id].updated
    /\ DrawCount(pads) > 0

(* the number of (x, y) pairs of the two sequences that fall into cell c *)
PairsIn(xs, ys, c) == Cardinality({k \in DOMAIN xs : <<FindBin(xs[k]), FindBin(ys[k])>> = c})

(* C10: with sequences of different lengths fill prints the message,       *)
(* raises nothing, calls neither FillN nor Fill and leaves the histogram   *)
(* as it was; with equal lengths every (x, y) pair is filled once, by      *)
(* FillN or, when FillN raises a TypeError, by one Fill per pair.          *)
C10_FillLengths ==
    [][fcall'.op = "fill" =>
          LET xs == fcall'.xvalues
              ys == fcall'.yvalues
          IN  /\ fcall'.raised = "none"
              /\ IF Len(xs) # Len(ys)
                 THEN /\ printed' = <<LengthMessage>>
                      /\ fcall'.calls = <<>>
                      /\ h2' = h2
                 ELSE /\ printed' = <<>>
                      /\ \A c \in Cells : h2'[c] = h2[c] + PairsIn(xs, ys, c)
                      /\ fcall'.calls = (IF fcall'.typeError
                                         THEN <<"FillN">> \o [k \in DOMAIN xs |-> "Fill"]
                                         ELSE <<"FillN">>)]_vars

(* a filled histogram has kept its contents through a call with sequences  *)
(* of different lengths                                                    *)
C10_Witness ==
    /\ fcall.op = "fill"
    /\ Len(fcall.xvalues) # Len(fcall.yvalues)
    /\ Len(fcall.xvalues) > 0 /\ Len(fcall.yvalues) > 0
    /\ GetEntries(h2) > 0
    /\ printed = <<LengthMessage>>

(* C11 as stated: shift returns a new histogram named "<name>_shift" and   *)
(* leaves its input unchanged; for every x bin b = 1..NbinsX of the input  *)
(* bin b + k of the result holds the content of bin b of the input, and    *)
(* every other bin of the result is empty.                                 *)
C11_ShiftEveryBin ==
    [][fcall'.op = "shift" =>
          LET k == fcall'.shift_units
              h == fcall'.h
              Moved == {b + k : b \in 1..GetNbinsX}
          IN  /\ h.name = "h2d_shift"
              /\ fcall'.hist = [name |-> "h2d", cells |-> h2]
              /\ h2' = h2
              /\ \A b \in 1..GetNbinsX :
                     (b + k) \in 0..(NCells - 1) => h.cells[CellOf(b + k)] = h2[CellOf(b)]
              /\ \A bin \in 0..(NCells - 1) :
                     bin \notin Moved => h.cells[CellOf(bin)] = 0]_vars

(* C11, what the code does: the same, for the x bins b = 1..NbinsX - 1     *)
(* only; the content of bin NbinsX is not carried over.                    *)
C11_ShiftButLast ==
    [][fcall'.op = "shift" =>
          LET k == fcall'.shift_units
              h == fcall'.h
              Moved == {b + k : b \in 1..(GetNbinsX - 1)}
          IN  /\ h.name = "h2d_shift"
              /\ fcall'.hist = [name |-> "h2d", cells |-> h2]
              /\ h2' = h2
              /\ \A b \in 1..(GetNbinsX - 1) :
                     (b + k) \in 0..(NCells - 1) => h.cells[CellOf(b + k)] = h2[CellOf(b)]
              /\ \A bin \in 0..(NCells - 1) :
                     bin \notin Moved => h.cells[CellOf(bin)] = 0]_vars

(* a histogram with content in its last x bin has been shifted by one bin, *)
(* and the bin after it is empty in the result                             *)
C11_Witness ==
    /\ fcall.op = "shift"
    /\ fcall.shift_units = 1
    /\ h2[CellOf(GetNbinsX)] > 0
    /\ fcall.h.cells[CellOf(GetNbinsX + 1)] = 0

====
